---- MODULE Spec2Model ----
(***************************************************************************)
(* Model of codegen/src/types.rs: the Features value (an ordered sequence  *)
(* of feature-flag names) with its merge operation join, its queries, and  *)
(* the declaration model (Struct, Enum, Variant, Field, Type).             *)
(*                                                                         *)
(* Three specifications share the variables:                               *)
(*   Spec      - one Features value: construction, then a chain of joins   *)
(*   SpecQuery - one Features value: construction, then queries            *)
(*   SpecDecl  - construction and read-back of Struct / Enum nodes         *)
(***************************************************************************)
EXTENDS Integers, Sequences, FiniteSets, TLC

\* ------------------------------------------------------------------------
\* Bounds
\* ------------------------------------------------------------------------
MaxLen == 2        \* longest flag sequence handed to Features::new
MaxJoins == 2      \* longest chain of join calls on one receiver
MaxFields == 2     \* longest field / payload sequence of a Struct / Variant
MaxVariants == 2   \* longest variant sequence of an Enum

Flags == {"x", "y", "z"}

RECURSIVE SeqsUpTo(_, _)
SeqsUpTo(S, n) ==
    IF n = 0 THEN {<<>>}
    ELSE LET shorter == SeqsUpTo(S, n - 1)
         IN  shorter \cup {Append(s, e) : s \in {t \in shorter : Len(t) = n - 1}, e \in S}

FlagSeqs == SeqsUpTo(Flags, MaxLen)

Range(s) == {s[i] : i \in 1..Len(s)}

VARIABLES
    any,      \* Features.any of the receiver (self)
    other,    \* Features.any of the operand of the latest join, after the call
    pc,       \* "default" before Features::new, "ready", or "panicked"
    last,     \* the operation that ran last
    ret,      \* value returned by the latest query
    flags,    \* ghost: the sequence given to Features::new
    old,      \* ghost: self.any before the latest join
    arg,      \* ghost: the argument of the latest operation
    seen,     \* ghost: the initial sequence and every join operand so far
    njoins,   \* number of join calls made on the receiver
    node,     \* the Struct or Enum built last
    dlast,    \* the declaration-model operation that ran last
    dargs,    \* ghost: the arguments of the latest node construction
    dret      \* value returned by the latest declaration-model accessor

fvars == <<any, other, pc, last, ret, flags, old, arg, seen, njoins>>
dvars == <<node, dlast, dargs, dret>>
vars == <<any, other, pc, last, ret, flags, old, arg, seen, njoins,
          node, dlast, dargs, dret>>

\* ------------------------------------------------------------------------
\* Vec<String> primitives used by Features
\* ------------------------------------------------------------------------

\* slice::contains: linear scan comparing each element with f
RECURSIVE VecContains(_, _)
VecContains(v, f) ==
    IF v = <<>> THEN FALSE
    ELSE IF Head(v) = f THEN TRUE
    ELSE VecContains(Tail(v), f)

\* a.iter().all(|f| b.contains(f))
AllContained(a, b) == \A i \in 1..Len(a) : VecContains(b, a[i])

\* ------------------------------------------------------------------------
\* Features
\* ------------------------------------------------------------------------

\* #[derive(Default)]: the empty sequence
Features_default == <<>>

\* first occurrences of the elements of v, in order
RECURSIVE Dedup(_)
Dedup(v) ==
    IF v = <<>> THEN <<>>
    ELSE LET front == Dedup(SubSeq(v, 1, Len(v) - 1))
             e == v[Len(v)]
         IN  IF VecContains(front, e) THEN front ELSE Append(front, e)

\* variant of Features::new that drops repeated flags
Features_new_dedup(fl) == Dedup(fl)

\* Features::new: wraps the given Vec
Features_new(fl) == fl

\* variant of join whose shorter receiver adopts the longer operand
Features_join_keepLarger(self, oth) ==
    IF self = <<>> THEN
        [any |-> oth, other |-> oth, panicked |-> FALSE]
    ELSE IF Len(self) < Len(oth) THEN
        IF AllContained(self, oth)
        THEN [any |-> oth, other |-> oth, panicked |-> FALSE]
        ELSE [any |-> self, other |-> oth, panicked |-> TRUE]
    ELSE
        IF AllContained(oth, self)
        THEN [any |-> self, other |-> oth, panicked |-> FALSE]
        ELSE [any |-> self, other |-> oth, panicked |-> TRUE]

\* variant of join whose empty receiver adopts the operand without repeats
Features_join_dedupClone(self, oth) ==
    IF self = <<>> THEN
        [any |-> Dedup(oth), other |-> oth, panicked |-> FALSE]
    ELSE IF Len(self) < Len(oth) THEN
        IF AllContained(self, oth)
        THEN [any |-> self, other |-> oth, panicked |-> FALSE]
        ELSE [any |-> self, other |-> oth, panicked |-> TRUE]
    ELSE
        IF AllContained(oth, self)
        THEN [any |-> oth, other |-> oth, panicked |-> FALSE]
        ELSE [any |-> self, other |-> oth, panicked |-> TRUE]

\* variant of join without the assertion of the shorter-receiver branch
Features_join_noAssert(self, oth) ==
    IF self = <<>> THEN
        [any |-> oth, other |-> oth, panicked |-> FALSE]
    ELSE IF Len(self) < Len(oth) THEN
        [any |-> self, other |-> oth, panicked |-> FALSE]
    ELSE
        IF AllContained(oth, self)
        THEN [any |-> oth, other |-> oth, panicked |-> FALSE]
        ELSE [any |-> self, other |-> oth, panicked |-> TRUE]

\* variant of join whose last branch asserts containment in both directions
Features_join_symmetric(self, oth) ==
    IF self = <<>> THEN
        [any |-> oth, other |-> oth, panicked |-> FALSE]
    ELSE IF Len(self) < Len(oth) THEN
        IF AllContained(self, oth)
        THEN [any |-> self, other |-> oth, panicked |-> FALSE]
        ELSE [any |-> self, other |-> oth, panicked |-> TRUE]
    ELSE
        IF AllContained(oth, self) /\ AllContained(self, oth)
        THEN [any |-> oth, other |-> oth, panicked |-> FALSE]
        ELSE [any |-> self, other |-> oth, panicked |-> TRUE]

\* variant of join whose last branch assigns before it asserts
Features_join_assignFirst(self, oth) ==
    IF self = <<>> THEN
        [any |-> oth, other |-> oth, panicked |-> FALSE]
    ELSE IF Len(self) < Len(oth) THEN
        IF AllContained(self, oth)
        THEN [any |-> self, other |-> oth, panicked |-> FALSE]
        ELSE [any |-> self, other |-> oth, panicked |-> TRUE]
    ELSE
        IF AllContained(oth, self)
        THEN [any |-> oth, other |-> oth, panicked |-> FALSE]
        ELSE [any |-> oth, other |-> oth, panicked |-> TRUE]

\* variant of join whose last branch keeps the receiver's extra flags
\* behind the operand's
Features_join_union(self, oth) ==
    IF self = <<>> THEN
        [any |-> oth, other |-> oth, panicked |-> FALSE]
    ELSE IF Len(self) < Len(oth) THEN
        IF AllContained(self, oth)
        THEN [any |-> self, other |-> oth, panicked |-> FALSE]
        ELSE [any |-> self, other |-> oth, panicked |-> TRUE]
    ELSE
        IF AllContained(oth, self)
        THEN [any |-> oth \o SelectSeq(self, LAMBDA f : ~VecContains(oth, f)),
              other |-> oth, panicked |-> FALSE]
        ELSE [any |-> self, other |-> oth, panicked |-> TRUE]

\* Features::join on (self.any, other.any): the values of self.any and
\* other.any when the call ends, and whether an assert! failed.
Features_join(self, oth) ==
    IF self = <<>> THEN
        [any |-> oth, other |-> oth, panicked |-> FALSE]
    ELSE IF Len(self) < Len(oth) THEN
        IF AllContained(self, oth)
        THEN [any |-> self, other |-> oth, panicked |-> FALSE]
        ELSE [any |-> self, other |-> oth, panicked |-> TRUE]
    ELSE
        IF AllContained(oth, self)
        THEN [any |-> oth, other |-> oth, panicked |-> FALSE]
        ELSE [any |-> self, other |-> oth, panicked |-> TRUE]

\* Features::iter: the items the iterator yields, in order
Features_iter(a) == [i \in 1..Len(a) |-> a[i]]

\* Features::len
Features_len(a) == Len(a)

\* Features::contains: self.iter().any(|s| s == tag)
RECURSIVE IterAny(_, _)
IterAny(it, tag) ==
    IF it = <<>> THEN FALSE
    ELSE IF Head(it) = tag THEN TRUE
    ELSE IterAny(Tail(it), tag)

\* variant of contains that looks at the first flag only
Features_contains_first(a, tag) == a # <<>> /\ Head(a) = tag

Features_contains(a, tag) == IterAny(Features_iter(a), tag)

\* variant of index that yields the empty name when out of range
Features_index_default(a, i) ==
    IF i < Len(a)
    THEN [panicked |-> FALSE, value |-> a[i + 1]]
    ELSE [panicked |-> FALSE, value |-> ""]

\* <Features as Index<usize>>::index (0-based); Vec::index panics when the
\* index is out of range
Features_index(a, i) ==
    IF i < Len(a)
    THEN [panicked |-> FALSE, value |-> a[i + 1]]
    ELSE [panicked |-> TRUE, value |-> "none"]

\* ------------------------------------------------------------------------
\* Type, Field, Variant, Struct, Enum, Node
\* ------------------------------------------------------------------------

\* enum Type: a value is written as the chain of its discriminators, from
\* the outermost wrapper to the leaf, followed by the leaf's name
Type_Item(name) == <<"item", name>>
Type_Std(name) == <<"std", name>>
Type_Token(name) == <<"token", name>>
Type_Option(t) == <<"option">> \o t
Type_Box(t) == <<"box">> \o t

FieldTypes == {Type_Std("String"), Type_Option(Type_Box(Type_Item("Expr")))}
PayloadTypes == {Type_Token("Eq"), Type_Box(Type_Item("Expr"))}

Field_new(ident, ty) == [ident |-> ident, ty |-> ty]
Field_ident(f) == f.ident
Field_ty(f) == f.ty

\* variant of Variant::new that builds a unit variant whatever the payload
Variant_new_unit(ident, fields) == [ident |-> ident, fields |-> <<>>]

Variant_new(ident, fields) == [ident |-> ident, fields |-> fields]
Variant_ident(v) == v.ident
Variant_fields(v) == v.fields

Struct_new(ident, features, fields, all_fields_pub) ==
    [ident |-> ident, features |-> features, fields |-> fields,
     all_fields_pub |-> all_fields_pub]
Struct_features(s) == s.features
Struct_fields(s) == s.fields
Struct_all_fields_pub(s) == s.all_fields_pub

Enum_new(ident, features, variants) ==
    [ident |-> ident, features |-> features, variants |-> variants]
Enum_variants(e) == e.variants

\* enum Node { Struct(Struct), Enum(Enum) }
Node_Struct(s) == [node |-> "struct", item |-> s]
Node_Enum(e) == [node |-> "enum", item |-> e]
Node_ident(n) == n.item.ident
Node_features(n) == n.item.features

NoNode == [node |-> "none"]

\* inputs of the constructors
FieldIdents == {"a", "b"}
VariantIdents == {"A", "B"}
NodeFeatures == {Features_default, Features_new(<<"x">>)}
FieldArgs == SeqsUpTo(FieldIdents \X FieldTypes, MaxFields)
PayloadArgs == SeqsUpTo(PayloadTypes, MaxFields)
VariantArgs == SeqsUpTo(VariantIdents \X PayloadArgs, MaxVariants)

Init ==
    /\ any = Features_default
    /\ other = <<>>
    /\ pc = "default"
    /\ last = "default"
    /\ ret = "none"
    /\ flags = <<>>
    /\ old = <<>>
    /\ arg = <<>>
    /\ seen = {Features_default}
    /\ njoins = 0
    /\ node = NoNode
    /\ dlast = "none"
    /\ dargs = <<>>
    /\ dret = "none"

\* let mut f = Features::new(fl)
New ==
    /\ pc = "default"
    /\ \E fl \in FlagSeqs :
        /\ any' = Features_new(fl)
        /\ flags' = fl
        /\ arg' = fl
        /\ seen' = {fl}
    /\ pc' = "ready"
    /\ last' = "new"
    /\ UNCHANGED <<other, ret, old, njoins>>
    /\ UNCHANGED dvars

\* f.join(&Features::new(o))
Join ==
    /\ pc \in {"default", "ready"}
    /\ njoins < MaxJoins
    /\ \E o \in FlagSeqs :
        LET r == Features_join(any, Features_new(o)) IN
        /\ any' = r.any
        /\ other' = r.other
        /\ pc' = IF r.panicked THEN "panicked" ELSE "ready"
        /\ arg' = o
        /\ seen' = seen \cup {o}
    /\ old' = any
    /\ last' = "join"
    /\ njoins' = njoins + 1
    /\ UNCHANGED <<ret, flags>>
    /\ UNCHANGED dvars

\* f.len()
LenOp ==
    /\ pc = "ready"
    /\ ret' = Features_len(any)
    /\ last' = "len"
    /\ arg' = <<>>
    /\ UNCHANGED <<any, other, pc, flags, old, seen, njoins>>
    /\ UNCHANGED dvars

\* f.contains(tag)
ContainsOp ==
    /\ pc = "ready"
    /\ \E tag \in Flags :
        /\ ret' = Features_contains(any, tag)
        /\ arg' = tag
    /\ last' = "contains"
    /\ UNCHANGED <<any, other, pc, flags, old, seen, njoins>>
    /\ UNCHANGED dvars

\* f.iter().collect()
IterOp ==
    /\ pc = "ready"
    /\ ret' = Features_iter(any)
    /\ last' = "iter"
    /\ arg' = <<>>
    /\ UNCHANGED <<any, other, pc, flags, old, seen, njoins>>
    /\ UNCHANGED dvars

\* &f[i]
IndexOp ==
    /\ pc = "ready"
    /\ \E i \in 0..MaxLen :
        LET r == Features_index(any, i) IN
        /\ pc' = IF r.panicked THEN "panicked" ELSE "ready"
        /\ ret' = IF r.panicked THEN "none" ELSE r.value
        /\ arg' = i
    /\ last' = "index"
    /\ UNCHANGED <<any, other, flags, old, seen, njoins>>
    /\ UNCHANGED dvars

Next == New \/ Join

Spec == Init /\ [][Next]_vars

NextQuery == New \/ LenOp \/ ContainsOp \/ IterOp \/ IndexOp

SpecQuery == Init /\ [][NextQuery]_vars

\* Node::Struct(Struct::new(ident, features, fields, all_fields_pub)), the
\* fields built by Field::new
StructNew ==
    /\ node = NoNode
    /\ \E ft \in NodeFeatures, fa \in FieldArgs, p \in BOOLEAN :
        /\ node' = Node_Struct(Struct_new("S", ft,
                       [i \in 1..Len(fa) |-> Field_new(fa[i][1], fa[i][2])], p))
        /\ dargs' = [ident |-> "S", features |-> ft, fields |-> fa,
                     all_fields_pub |-> p]
    /\ dlast' = "struct_new"
    /\ dret' = "none"
    /\ UNCHANGED fvars

\* Node::Enum(Enum::new(ident, features, variants)), the variants built by
\* Variant::new
EnumNew ==
    /\ node = NoNode
    /\ \E ft \in NodeFeatures, va \in VariantArgs :
        /\ node' = Node_Enum(Enum_new("E", ft,
                       [i \in 1..Len(va) |-> Variant_new(va[i][1], va[i][2])]))
        /\ dargs' = [ident |-> "E", features |-> ft, variants |-> va]
    /\ dlast' = "enum_new"
    /\ dret' = "none"
    /\ UNCHANGED fvars

\* s.fields()
StructFields ==
    /\ node.node = "struct"
    /\ dret' = Struct_fields(node.item)
    /\ dlast' = "struct_fields"
    /\ UNCHANGED <<node, dargs>>
    /\ UNCHANGED fvars

\* (s.features(), s.all_fields_pub())
StructFlags ==
    /\ node.node = "struct"
    /\ dret' = <<Struct_features(node.item), Struct_all_fields_pub(node.item)>>
    /\ dlast' = "struct_flags"
    /\ UNCHANGED <<node, dargs>>
    /\ UNCHANGED fvars

\* e.variants()
EnumVariants ==
    /\ node.node = "enum"
    /\ dret' = Enum_variants(node.item)
    /\ dlast' = "enum_variants"
    /\ UNCHANGED <<node, dargs>>
    /\ UNCHANGED fvars

\* (i, e.variants()[i].ident(), e.variants()[i].fields()), 0-based i in range
VariantFields ==
    /\ node.node = "enum"
    /\ \E i \in 0..(Len(Enum_variants(node.item)) - 1) :
        LET v == Enum_variants(node.item)[i + 1] IN
        dret' = <<i, Variant_ident(v), Variant_fields(v)>>
    /\ dlast' = "variant_fields"
    /\ UNCHANGED <<node, dargs>>
    /\ UNCHANGED fvars

\* (n.ident(), n.features())
NodeHeader ==
    /\ node.node \in {"struct", "enum"}
    /\ dret' = <<Node_ident(node), Node_features(node)>>
    /\ dlast' = "node_header"
    /\ UNCHANGED <<node, dargs>>
    /\ UNCHANGED fvars

NextDecl ==
    StructNew \/ EnumNew \/ StructFields \/ StructFlags \/ EnumVariants
        \/ VariantFields \/ NodeHeader

SpecDecl == Init /\ [][NextDecl]_vars

\* ------------------------------------------------------------------------
\* Properties
\* ------------------------------------------------------------------------

NoDup(s) == Cardinality(Range(s)) = Len(s)
Comparable(a, b) == Range(a) \subseteq Range(b) \/ Range(b) \subseteq Range(a)

\* C1 (as stated): when the flag set of one of receiver / operand is
\* contained in the other's, join completes and the receiver ends with the
\* larger of the two flag sets.
C1_JoinYieldsLarger ==
    last = "join" =>
        /\ Range(old) \subseteq Range(arg) =>
               pc = "ready" /\ Range(any) = Range(arg)
        /\ Range(arg) \subseteq Range(old) =>
               pc = "ready" /\ Range(any) = Range(old)

\* C1 (amended): for A's flag set contained in B's, whenever A.join(B) or
\* B.join(A) completes the receiver's flag set equals A's (the smaller set),
\* except that an empty receiver A adopts B's sequence; neither call aborts
\* when A and B hold no repeated flag.
C1_JoinYieldsSmaller ==
    last = "join" =>
        /\ (Range(old) \subseteq Range(arg) /\ pc = "ready") =>
               IF old = <<>> THEN any = arg ELSE Range(any) = Range(old)
        /\ (Range(arg) \subseteq Range(old) /\ pc = "ready") =>
               Range(any) = Range(arg)
        /\ (Comparable(old, arg) /\ NoDup(old) /\ NoDup(arg)) => pc = "ready"

C1_Witness ==
    /\ last = "join" /\ pc = "ready"
    /\ old = <<"x">> /\ arg = <<"x", "y">> /\ any = <<"x">>

\* C2: an empty receiver joined with any operand completes and ends with
\* exactly the operand's sequence: same elements, order and length.
C2_EmptyAdoptsOther ==
    (last = "join" /\ old = <<>>) =>
        /\ pc = "ready"
        /\ any = arg
        /\ Len(any) = Len(arg)
        /\ \A i \in 1..Len(arg) : any[i] = arg[i]

C2_Witness ==
    /\ last = "join" /\ old = <<>>
    /\ arg = <<"y", "y">> /\ any = <<"y", "y">>

\* C3: a join of two values whose flag sets are incomparable ends in the
\* assertion failure, whatever the lengths of the two sequences.
C3_IncomparablePanics ==
    (last = "join" /\ ~Comparable(old, arg)) => pc = "panicked"

C3_Witness ==
    /\ last = "join" /\ pc = "panicked"
    /\ old = <<"x", "y">> /\ arg = <<"x", "z">>

\* C4 (as stated): with a non-empty receiver and sequences of equal length,
\* join completes exactly when the two flag sets are identical, and the
\* receiver then holds the operand's value.
C4_EqualLenSymmetric ==
    (last = "join" /\ old # <<>> /\ Len(old) = Len(arg)) =>
        /\ pc = "ready" <=> Range(old) = Range(arg)
        /\ pc = "ready" => any = arg

\* C4 (amended): with a non-empty receiver and sequences of equal length,
\* join checks containment in one direction: it completes exactly when
\* every flag of the operand is in the receiver, the receiver then holds the
\* operand's value, and the two flag sets are identical when the operand
\* holds no repeated flag.
C4_EqualLenOneWay ==
    (last = "join" /\ old # <<>> /\ Len(old) = Len(arg)) =>
        /\ pc = "ready" <=> Range(arg) \subseteq Range(old)
        /\ pc = "ready" => any = arg
        /\ (pc = "ready" /\ NoDup(arg)) => Range(old) = Range(arg)

C4_Witness ==
    /\ last = "join" /\ pc = "ready"
    /\ old = <<"x", "y">> /\ arg = <<"y", "x">> /\ any = <<"y", "x">>

\* C5: contains(f) on a value built by new(flags) is true exactly when f
\* occurs at some position of flags.
C5_ContainsIsMembership ==
    last = "contains" => (ret <=> arg \in Range(flags))

C5_Witness ==
    /\ last = "contains" /\ ret = TRUE
    /\ flags = <<"x", "y">> /\ arg = "y"

\* C6: indexing at a position at or past len() is fatal and yields neither
\* a default nor a flag name.
C6_IndexOutOfRangePanics ==
    (last = "index" /\ arg >= Len(any)) =>
        pc = "panicked" /\ ret \notin (Flags \cup {""})

C6_Witness ==
    last = "index" /\ any = <<>> /\ arg = 0 /\ pc = "panicked"

\* C7: new(flags) stores flags verbatim: len() is the length of flags,
\* index i yields flags[i] for every i below len(), and every iteration
\* yields flags in the original order.
C7_NewVerbatim ==
    /\ last = "new" => any = flags
    /\ last = "len" => ret = Len(flags)
    /\ (last = "index" /\ arg < Len(flags)) =>
           pc = "ready" /\ ret = flags[arg + 1]
    /\ last = "iter" => ret = flags

C7_Witness ==
    last = "iter" /\ flags = <<"y", "y">> /\ ret = <<"y", "y">>

\* C8: read-back returns what construction was given: variants() the
\* variants in order, each with the payload given to Variant::new, and
\* Struct fields() the fields in order.
C8_ReadBack ==
    /\ dlast = "enum_variants" =>
        /\ Len(dret) = Len(dargs.variants)
        /\ \A i \in 1..Len(dret) :
            /\ Variant_ident(dret[i]) = dargs.variants[i][1]
            /\ Len(Variant_fields(dret[i])) = Len(dargs.variants[i][2])
            /\ Variant_fields(dret[i]) = dargs.variants[i][2]
    /\ dlast = "variant_fields" =>
        /\ dret[2] = dargs.variants[dret[1] + 1][1]
        /\ dret[3] = dargs.variants[dret[1] + 1][2]
    /\ dlast = "struct_fields" =>
        /\ Len(dret) = Len(dargs.fields)
        /\ \A i \in 1..Len(dret) :
            /\ Field_ident(dret[i]) = dargs.fields[i][1]
            /\ Field_ty(dret[i]) = dargs.fields[i][2]

C8_Witness ==
    /\ dlast = "enum_variants"
    /\ dargs.variants = <<<<"A", <<>>>>, <<"B", <<Type_Token("Eq")>>>>>>
    /\ Len(dret) = 2
    /\ Len(Variant_fields(dret[1])) = 0
    /\ Len(Variant_fields(dret[2])) = 1

\* C9: a join that aborts leaves the receiver as it was before the call,
\* and no join changes its operand.
C9_PanicLeavesSelf ==
    last = "join" =>
        /\ pc = "panicked" => any = old
        /\ other = arg

C9_Witness ==
    /\ last = "join" /\ pc = "panicked"
    /\ old = <<"x", "y">> /\ arg = <<"z">> /\ any = <<"x", "y">>

\* C10: the receiver's sequence is always its initial sequence or the
\* sequence of one of the operands joined so far.
C10_NeverSynthesised == any \in seen

C10_Witness ==
    /\ njoins = 2 /\ pc = "ready"
    /\ flags = <<"x", "y">> /\ <<"y", "x">> \in seen /\ any = <<"x">>

====
